---- MODULE Spec2Model ----
(***************************************************************************)
(* Intel 8080 core of FiloSanza/intel-8080: the register file, the memory  *)
(* with its little-endian word helpers, the ALU / transfer / branch /      *)
(* stack primitives of Cpu and the dispatcher Cpu::next.                   *)
(*                                                                         *)
(* A Rust panic (an index past the end of Memory::data, an arithmetic      *)
(* overflow in a build with overflow checks) ends the process: the model   *)
(* records it in `panicked`, keeps what had been written before it and     *)
(* allows no further operation.                                            *)
(***************************************************************************)
EXTENDS Integers, Sequences, FiniteSets, TLC

VARIABLES
    register,          \* Cpu.register: [a, f, b, c, d, e, h, l, sp, pc]
    memory,            \* Cpu.memory, Memory.data: the non-zero bytes, by address
    stop,              \* Cpu.stop: set by HLT
    interrupt,         \* Cpu.interrupt: set by EI, cleared by DI
    panicked,          \* the process has panicked
    overflow_checks,   \* the build: TRUE when `+=` aborts on overflow (debug)
    irq_opcode,        \* the opcode the interrupting device puts on the bus
    hist               \* the operations applied so far, each with the state before it

vars == <<register, memory, stop, interrupt, panicked, overflow_checks, irq_opcode, hist>>

----------------------------------------------------------------------------
(* Bounds of the model                                                     *)

MaxOps == 2            \* operations applied in one behaviour

----------------------------------------------------------------------------
(* Machine arithmetic: Rust's u8 / u16 operators                           *)

Byte == 256            \* 2^8: the range of u8
Word == 65536          \* 2^16: the range of u16

RECURSIVE BitAnd(_, _)
BitAnd(x, y) ==
    IF x = 0 \/ y = 0 THEN 0
    ELSE (x % 2) * (y % 2) + 2 * BitAnd(x \div 2, y \div 2)

RECURSIVE BitOr(_, _)
BitOr(x, y) ==
    IF x = 0 THEN y
    ELSE IF y = 0 THEN x
    ELSE (IF x % 2 = 1 \/ y % 2 = 1 THEN 1 ELSE 0) + 2 * BitOr(x \div 2, y \div 2)

RECURSIVE BitXor(_, _)
BitXor(x, y) ==
    IF x = 0 THEN y
    ELSE IF y = 0 THEN x
    ELSE ((x + y) % 2) + 2 * BitXor(x \div 2, y \div 2)

RECURSIVE count_ones(_)
count_ones(x) == IF x = 0 THEN 0 ELSE (x % 2) + count_ones(x \div 2)

wrapping_add8(x, y) == (x + y) % Byte
wrapping_sub8(x, y) == (x + Byte - y) % Byte
wrapping_add16(x, y) == (x + y) % Word
wrapping_sub16(x, y) == (x + Word - y) % Word

Bool2Int(v) == IF v THEN 1 ELSE 0

----------------------------------------------------------------------------
(* bit.rs                                                                  *)

bit_get(byte, pos) == ((byte \div (2 ^ pos)) % 2) /= 0

bit_set(byte, pos) == BitOr(byte, 2 ^ pos)

bit_clear(byte, pos) == BitAnd(byte, (Byte - 1) - (2 ^ pos))

----------------------------------------------------------------------------
(* memory.rs: data is vec![0x00; 0x10000]; an index past it panics         *)

MemSize == 65536

Panic(s) == [s EXCEPT !.panicked = TRUE]

InBounds(idx) == idx < MemSize

\* data with data[idx] = value; only the non-zero bytes are kept
Store(data, idx, value) ==
    LET D == IF value = 0 THEN DOMAIN data \ {idx} ELSE DOMAIN data \cup {idx}
    IN  [x \in D |-> IF x = idx THEN value ELSE data[x]]

Load(data, idx) == IF idx \in DOMAIN data THEN data[idx] ELSE 0

\* Memory::get: the byte read (meaningful when InBounds(idx))
get(s, idx) == Load(s.memory, idx)

\* Memory::set
set(s, idx, value) ==
    IF s.panicked THEN s
    ELSE IF ~InBounds(idx) THEN Panic(s)
    ELSE [s EXCEPT !.memory = Store(@, idx, value)]

\* Memory::get_word panics exactly when one of its two reads does
get_word_ok(idx) == InBounds(idx) /\ InBounds(idx + 1)

\* Memory::get_word: the word read (meaningful when get_word_ok(idx))
get_word(s, idx) == BitOr(get(s, idx), get(s, idx + 1) * 256)

\* Memory::set_word: the low byte goes first, then the high byte
set_word(s, idx, value) ==
    set(set(s, idx, BitAnd(value, 255)), idx + 1, value \div 256)

----------------------------------------------------------------------------
(* register.rs                                                             *)

Sign == 7
Zero == 6
AC == 4
Parity == 2
Carry == 0

\* Register::new
Register_new ==
    [a |-> 0, f |-> 2, b |-> 0, c |-> 0, d |-> 0, e |-> 0, h |-> 0, l |-> 0,
     sp |-> 0, pc |-> 0]

get_bc(s) == BitOr(s.register.b * 256, s.register.c)
get_de(s) == BitOr(s.register.d * 256, s.register.e)
get_hl(s) == BitOr(s.register.h * 256, s.register.l)
get_af(s) == BitOr(s.register.a * 256, s.register.f)

set_bc(s, value) ==
    IF s.panicked THEN s
    ELSE [s EXCEPT !.register.b = value \div 256, !.register.c = BitAnd(value, 255)]

set_de(s, value) ==
    IF s.panicked THEN s
    ELSE [s EXCEPT !.register.d = value \div 256, !.register.e = BitAnd(value, 255)]

set_hl(s, value) ==
    IF s.panicked THEN s
    ELSE [s EXCEPT !.register.h = value \div 256, !.register.l = BitAnd(value, 255)]

\* set_af with the low byte stored as it comes, without `& 0x00d5 | 0x0002`
set_af_unmasked(s, value) ==
    IF s.panicked THEN s
    ELSE [s EXCEPT !.register.a = value \div 256, !.register.f = value % Byte]

set_af(s, value) ==
    IF s.panicked THEN s
    ELSE [s EXCEPT !.register.a = value \div 256,
                   !.register.f = BitOr(BitAnd(value, 213), 2) % Byte]

get_flag(s, flag) == bit_get(s.register.f, flag)

set_flag(s, flag, value) ==
    IF s.panicked THEN s
    ELSE IF value THEN [s EXCEPT !.register.f = bit_set(@, flag)]
    ELSE [s EXCEPT !.register.f = bit_clear(@, flag)]

\* direct writes of the pub fields of Register
set_a(s, value) == IF s.panicked THEN s ELSE [s EXCEPT !.register.a = value]
set_b(s, value) == IF s.panicked THEN s ELSE [s EXCEPT !.register.b = value]
set_c(s, value) == IF s.panicked THEN s ELSE [s EXCEPT !.register.c = value]
set_d(s, value) == IF s.panicked THEN s ELSE [s EXCEPT !.register.d = value]
set_e(s, value) == IF s.panicked THEN s ELSE [s EXCEPT !.register.e = value]
set_h(s, value) == IF s.panicked THEN s ELSE [s EXCEPT !.register.h = value]
set_l(s, value) == IF s.panicked THEN s ELSE [s EXCEPT !.register.l = value]
set_sp(s, value) == IF s.panicked THEN s ELSE [s EXCEPT !.register.sp = value]
set_pc(s, value) == IF s.panicked THEN s ELSE [s EXCEPT !.register.pc = value]

----------------------------------------------------------------------------
(* cpu.rs: a call that returns a value yields the state and the value      *)

Ret(s, v) == [s |-> s, v |-> v]

\* `self.register.pc += n`: u16 addition, which aborts on overflow in a build
\* with overflow checks and wraps in a build without them
pc_add_assign(s, n) ==
    IF s.panicked THEN s
    ELSE IF s.register.pc + n < Word THEN set_pc(s, s.register.pc + n)
    ELSE IF overflow_checks THEN Panic(s)
    ELSE set_pc(s, (s.register.pc + n) % Word)

\* Cpu::stack_push
stack_push(s, value) ==
    LET t == set_sp(s, wrapping_sub16(s.register.sp, 2))
    IN  set_word(t, t.register.sp, value)

\* Cpu::stack_pop
stack_pop(s) ==
    IF s.panicked THEN Ret(s, 0)
    ELSE IF ~get_word_ok(s.register.sp) THEN Ret(Panic(s), 0)
    ELSE Ret(set_sp(s, wrapping_add16(s.register.sp, 2)), get_word(s, s.register.sp))

\* Cpu::set_m
set_m(s, value) == set(s, get_hl(s), value)

\* Cpu::get_m
get_m(s) == get(s, get_hl(s))

\* Cpu::get_next_byte
get_next_byte(s) ==
    IF s.panicked THEN Ret(s, 0)
    ELSE IF ~InBounds(s.register.pc) THEN Ret(Panic(s), 0)
    ELSE Ret(pc_add_assign(s, 1), get(s, s.register.pc))

\* Cpu::get_next_word
get_next_word(s) ==
    IF s.panicked THEN Ret(s, 0)
    ELSE IF ~get_word_ok(s.register.pc) THEN Ret(Panic(s), 0)
    ELSE Ret(pc_add_assign(s, 2), get_word(s, s.register.pc))

----------------------------------------------------------------------------
(* cpu.rs: Arithmetic Group                                                *)

\* alu_add with the auxiliary carry taken from the whole bytes
alu_add_ac_of_bytes(s, value) ==
    LET a == s.register.a
        result == wrapping_add8(a, value)
        s1 == set_flag(s, Zero, result = 0)
        s2 == set_flag(s1, Sign, bit_get(result, 7))
        s3 == set_flag(s2, AC, a + value > 15)
        s4 == set_flag(s3, Parity, BitAnd(count_ones(result), 1) = 0)
        s5 == set_flag(s4, Carry, a + value > 255)
    IN  set_a(s5, result)

alu_add(s, value) ==
    LET a == s.register.a
        result == wrapping_add8(a, value)
        s1 == set_flag(s, Zero, result = 0)
        s2 == set_flag(s1, Sign, bit_get(result, 7))
        s3 == set_flag(s2, AC, BitAnd(a, 15) + BitAnd(value, 15) > 15)
        s4 == set_flag(s3, Parity, BitAnd(count_ones(result), 1) = 0)
        s5 == set_flag(s4, Carry, a + value > 255)
    IN  set_a(s5, result)

alu_adc(s, value) ==
    LET a == s.register.a
        c == Bool2Int(get_flag(s, Carry))
        result == wrapping_add8(wrapping_add8(a, value), c)
        s1 == set_flag(s, Zero, result = 0)
        s2 == set_flag(s1, Sign, bit_get(result, 7))
        s3 == set_flag(s2, AC, BitAnd(a, 15) + BitAnd(value, 15) + c > 15)
        s4 == set_flag(s3, Parity, BitAnd(count_ones(result), 1) = 0)
        s5 == set_flag(s4, Carry, a + value + c > 255)
    IN  set_a(s5, result)

\* alu_sub with the auxiliary carry set on a borrow out of the low nibble
alu_sub_ac_on_borrow(s, value) ==
    LET a == s.register.a
        result == wrapping_sub8(a, value)
        s1 == set_flag(s, Zero, result = 0)
        s2 == set_flag(s1, Sign, bit_get(result, 7))
        s3 == set_flag(s2, AC, BitAnd(a, 15) - BitAnd(value, 15) < 0)
        s4 == set_flag(s3, Parity, BitAnd(count_ones(result), 1) = 0)
        s5 == set_flag(s4, Carry, a < value)
    IN  set_a(s5, result)

alu_sub(s, value) ==
    LET a == s.register.a
        result == wrapping_sub8(a, value)
        s1 == set_flag(s, Zero, result = 0)
        s2 == set_flag(s1, Sign, bit_get(result, 7))
        s3 == set_flag(s2, AC, BitAnd(a, 15) - BitAnd(value, 15) >= 0)
        s4 == set_flag(s3, Parity, BitAnd(count_ones(result), 1) = 0)
        s5 == set_flag(s4, Carry, a < value)
    IN  set_a(s5, result)

alu_sbb(s, value) ==
    LET a == s.register.a
        c == Bool2Int(get_flag(s, Carry))
        result == wrapping_sub8(wrapping_sub8(a, value), c)
        s1 == set_flag(s, Zero, result = 0)
        s2 == set_flag(s1, Sign, bit_get(result, 7))
        s3 == set_flag(s2, AC, BitAnd(a, 15) - BitAnd(value, 15) - c >= 0)
        s4 == set_flag(s3, Parity, BitAnd(count_ones(result), 1) = 0)
        s5 == set_flag(s4, Carry, a < value + c)
    IN  set_a(s5, result)

alu_inr(s, value) ==
    LET result == wrapping_add8(value, 1)
        s1 == set_flag(s, Zero, result = 0)
        s2 == set_flag(s1, Sign, bit_get(result, 7))
        s3 == set_flag(s2, AC, BitAnd(value, 15) + 1 > 15)
        s4 == set_flag(s3, Parity, BitAnd(count_ones(result), 1) = 0)
    IN  Ret(s4, result)

\* alu_dcr with the auxiliary carry set when the low nibble borrows
alu_dcr_ac_on_borrow(s, value) ==
    LET result == wrapping_sub8(value, 1)
        s1 == set_flag(s, Zero, result = 0)
        s2 == set_flag(s1, Sign, bit_get(result, 7))
        s3 == set_flag(s2, AC, BitAnd(result, 15) = 15)
        s4 == set_flag(s3, Parity, BitAnd(count_ones(result), 1) = 0)
    IN  Ret(s4, result)

alu_dcr(s, value) ==
    LET result == wrapping_sub8(value, 1)
        s1 == set_flag(s, Zero, result = 0)
        s2 == set_flag(s1, Sign, bit_get(result, 7))
        s3 == set_flag(s2, AC, BitAnd(result, 15) /= 15)
        s4 == set_flag(s3, Parity, BitAnd(count_ones(result), 1) = 0)
    IN  Ret(s4, result)

\* alu_dad with the carry set one sum early
alu_dad_carry_at_ffff(s, value) ==
    LET hl == get_hl(s)
        result == wrapping_add16(hl, value)
        s1 == set_flag(s, Carry, hl >= 65535 - value)
    IN  set_hl(s1, result)

alu_dad(s, value) ==
    LET hl == get_hl(s)
        result == wrapping_add16(hl, value)
        s1 == set_flag(s, Carry, hl > 65535 - value)
    IN  set_hl(s1, result)

\* alu_daa without the adjustment for a high nibble of 9 under a low nibble above 9
alu_daa_high_nibble_alone(s) ==
    LET low == BitAnd(s.register.a, 15)
        high == s.register.a \div 16
        low_adjust == (low > 9) \/ get_flag(s, AC)
        high_adjust == (high > 9) \/ get_flag(s, Carry)
        to_add == (IF low_adjust THEN 6 ELSE 0) + (IF high_adjust THEN 96 ELSE 0)
        carry == IF high_adjust THEN TRUE ELSE get_flag(s, Carry)
    IN  set_flag(alu_add(s, to_add), Carry, carry)

\* alu_daa with the carry left as the addition set it
alu_daa_carry_of_addition(s) ==
    LET low == BitAnd(s.register.a, 15)
        high == s.register.a \div 16
        low_adjust == (low > 9) \/ get_flag(s, AC)
        high_adjust == (high > 9) \/ get_flag(s, Carry) \/ ((high >= 9) /\ (low > 9))
        to_add == (IF low_adjust THEN 6 ELSE 0) + (IF high_adjust THEN 96 ELSE 0)
    IN  alu_add(s, to_add)

alu_daa(s) ==
    LET low == BitAnd(s.register.a, 15)
        high == s.register.a \div 16
        low_adjust == (low > 9) \/ get_flag(s, AC)
        high_adjust == (high > 9) \/ get_flag(s, Carry) \/ ((high >= 9) /\ (low > 9))
        to_add == (IF low_adjust THEN 6 ELSE 0) + (IF high_adjust THEN 96 ELSE 0)
        carry == IF high_adjust THEN TRUE ELSE get_flag(s, Carry)
    IN  set_flag(alu_add(s, to_add), Carry, carry)

----------------------------------------------------------------------------
(* cpu.rs: Logical Group                                                   *)

\* alu_ana with the auxiliary carry cleared, as alu_xra and alu_ora clear it
alu_ana_ac_cleared(s, value) ==
    LET a == s.register.a
        result == BitAnd(a, value)
        s1 == set_flag(s, Zero, result = 0)
        s2 == set_flag(s1, Sign, bit_get(result, 7))
        s3 == set_flag(s2, AC, FALSE)
        s4 == set_flag(s3, Parity, BitAnd(count_ones(result), 1) = 0)
        s5 == set_flag(s4, Carry, FALSE)
    IN  set_a(s5, result)

alu_ana(s, value) ==
    LET a == s.register.a
        result == BitAnd(a, value)
        s1 == set_flag(s, Zero, result = 0)
        s2 == set_flag(s1, Sign, bit_get(result, 7))
        s3 == set_flag(s2, AC, BitAnd(BitOr(a, value), 8) /= 0)
        s4 == set_flag(s3, Parity, BitAnd(count_ones(result), 1) = 0)
        s5 == set_flag(s4, Carry, FALSE)
    IN  set_a(s5, result)

alu_xra(s, value) ==
    LET a == s.register.a
        result == BitXor(a, value)
        s1 == set_flag(s, Zero, result = 0)
        s2 == set_flag(s1, Sign, bit_get(result, 7))
        s3 == set_flag(s2, AC, FALSE)
        s4 == set_flag(s3, Parity, BitAnd(count_ones(result), 1) = 0)
        s5 == set_flag(s4, Carry, FALSE)
    IN  set_a(s5, result)

alu_ora(s, value) ==
    LET a == s.register.a
        result == BitOr(a, value)
        s1 == set_flag(s, Zero, result = 0)
        s2 == set_flag(s1, Sign, bit_get(result, 7))
        s3 == set_flag(s2, AC, FALSE)
        s4 == set_flag(s3, Parity, BitAnd(count_ones(result), 1) = 0)
        s5 == set_flag(s4, Carry, FALSE)
    IN  set_a(s5, result)

alu_cmp(s, value) ==
    LET a == s.register.a
    IN  set_a(alu_sub(s, value), a)

alu_rlc(s) ==
    LET msb == bit_get(s.register.a, 7)
        s1 == set_flag(s, Carry, msb)
    IN  set_a(s1, BitOr((s1.register.a * 2) % Byte, Bool2Int(msb)))

alu_rrc(s) ==
    LET lsb == bit_get(s.register.a, 0)
        s1 == set_flag(s, Carry, lsb)
    IN  set_a(s1, IF lsb THEN BitOr(s1.register.a \div 2, 128)
                  ELSE s1.register.a \div 2)

\* alu_ral with the carry written before it is read
alu_ral_carry_written_first(s) ==
    LET msb == bit_get(s.register.a, 7)
        s1 == set_flag(s, Carry, msb)
    IN  set_a(s1, BitOr((s.register.a * 2) % Byte, Bool2Int(get_flag(s1, Carry))))

alu_ral(s) ==
    LET msb == bit_get(s.register.a, 7)
        s1 == set_a(s, BitOr((s.register.a * 2) % Byte, Bool2Int(get_flag(s, Carry))))
    IN  set_flag(s1, Carry, msb)

alu_rar(s) ==
    LET lsb == bit_get(s.register.a, 0)
        s1 == set_a(s, IF get_flag(s, Carry) THEN BitAnd(s.register.a \div 2, 128)
                       ELSE s.register.a \div 2)
    IN  set_flag(s1, Carry, lsb)

alu_cma(s) == set_a(s, (Byte - 1) - s.register.a)

alu_cmc(s) == set_flag(s, Carry, ~get_flag(s, Carry))

alu_stc(s) == set_flag(s, Carry, TRUE)

----------------------------------------------------------------------------
(* cpu.rs: Data Transfer Group                                             *)

alu_lda(s) ==
    LET w == get_next_word(s)
    IN  set_a(w.s, get(w.s, w.v))

alu_sta(s) ==
    LET value == s.register.a
        w == get_next_word(s)
    IN  set(w.s, w.v, value)

alu_lhld(s) ==
    LET w == get_next_word(s)
    IN  IF w.s.panicked THEN w.s
        ELSE IF ~get_word_ok(w.v) THEN Panic(w.s)
        ELSE set_hl(w.s, get_word(w.s, w.v))

alu_shld(s) ==
    LET w == get_next_word(s)
    IN  set_word(w.s, w.v, get_hl(w.s))

alu_ldax(s, index) == set_a(s, get(s, index))

alu_stax(s, index) == set(s, index, s.register.a)

alu_xchg(s) ==
    IF s.panicked THEN s
    ELSE [s EXCEPT !.register.h = s.register.d, !.register.d = s.register.h,
                   !.register.l = s.register.e, !.register.e = s.register.l]

----------------------------------------------------------------------------
(* cpu.rs: Branch Group                                                    *)

alu_jmp(s, condition) ==
    LET w == get_next_word(s)
    IN  IF condition THEN set_pc(w.s, w.v) ELSE w.s

alu_call(s, condition) ==
    LET w == get_next_word(s)
    IN  IF condition THEN set_pc(stack_push(w.s, w.s.register.pc), w.v) ELSE w.s

alu_ret(s, condition) ==
    IF condition
    THEN LET r == stack_pop(s) IN set_pc(r.s, r.v)
    ELSE s

alu_rst(s, value) == set_pc(stack_push(s, s.register.pc), value * 8)

----------------------------------------------------------------------------
(* cpu.rs: Stack, I/O and Machine control Group                            *)

alu_xthl(s) ==
    IF s.panicked THEN s
    ELSE IF ~get_word_ok(s.register.sp) THEN Panic(s)
    ELSE LET sp == get_word(s, s.register.sp)
             hl == get_hl(s)
         IN  set_word(set_hl(s, sp), s.register.sp, hl)

----------------------------------------------------------------------------
(* cpu.rs: the dispatcher                                                  *)

set_stop(s, value) == IF s.panicked THEN s ELSE [s EXCEPT !.stop = value]

set_interrupt(s, value) == IF s.panicked THEN s ELSE [s EXCEPT !.interrupt = value]

\* the arms 0x00..0x3f of the match in Cpu::next
next_00_3f(s, opcode) ==
    CASE opcode = 0 -> s                                                       \* 0x00 NOP
      [] opcode = 1 -> LET r == get_next_word(s) IN set_bc(r.s, r.v)           \* 0x01 LXI B
      [] opcode = 2 -> alu_stax(s, get_bc(s))                                  \* 0x02 STAX B
      [] opcode = 3 -> set_bc(s, wrapping_add16(get_bc(s), 1))                 \* 0x03 INX B
      [] opcode = 4 -> LET r == alu_inr(s, s.register.b) IN set_b(r.s, r.v)    \* 0x04 INR B
      [] opcode = 5 -> LET r == alu_dcr(s, s.register.b) IN set_b(r.s, r.v)    \* 0x05 DCR B
      [] opcode = 6 -> LET r == get_next_byte(s) IN set_b(r.s, r.v)            \* 0x06 MVI B,$
      [] opcode = 7 -> alu_rlc(s)                                              \* 0x07 RLC
      [] opcode = 9 -> alu_dad(s, get_bc(s))                                   \* 0x09 DAD B
      [] opcode = 10 -> alu_ldax(s, get_bc(s))                                 \* 0x0a LDAX B
      [] opcode = 11 -> set_bc(s, wrapping_sub16(get_bc(s), 1))                \* 0x0b DCX B
      [] opcode = 12 -> LET r == alu_inr(s, s.register.c) IN set_c(r.s, r.v)   \* 0x0c INR C
      [] opcode = 13 -> LET r == alu_dcr(s, s.register.c) IN set_c(r.s, r.v)   \* 0x0d DCR C
      [] opcode = 14 -> LET r == get_next_byte(s) IN set_c(r.s, r.v)           \* 0x0e MVI C,$
      [] opcode = 15 -> alu_rrc(s)                                             \* 0x0f RRC
      [] opcode = 17 -> LET r == get_next_word(s) IN set_de(r.s, r.v)          \* 0x11 LXI D
      [] opcode = 18 -> alu_stax(s, get_de(s))                                 \* 0x12 STAX D
      [] opcode = 19 -> set_de(s, wrapping_add16(get_de(s), 1))                \* 0x13 INX D
      [] opcode = 20 -> LET r == alu_inr(s, s.register.d) IN set_d(r.s, r.v)   \* 0x14 INR D
      [] opcode = 21 -> LET r == alu_dcr(s, s.register.d) IN set_d(r.s, r.v)   \* 0x15 DCR D
      [] opcode = 22 -> LET r == get_next_byte(s) IN set_d(r.s, r.v)           \* 0x16 MVI D,$
      [] opcode = 23 -> alu_ral(s)                                             \* 0x17 RAL
      [] opcode = 25 -> alu_dad(s, get_de(s))                                  \* 0x19 DAD D
      [] opcode = 26 -> alu_ldax(s, get_de(s))                                 \* 0x1a LDAX D
      [] opcode = 27 -> set_de(s, wrapping_sub16(get_de(s), 1))                \* 0x1b DCX D
      [] opcode = 28 -> LET r == alu_inr(s, s.register.e) IN set_e(r.s, r.v)   \* 0x1c INR E
      [] opcode = 29 -> LET r == alu_dcr(s, s.register.e) IN set_e(r.s, r.v)   \* 0x1d DCR E
      [] opcode = 30 -> LET r == get_next_byte(s) IN set_e(r.s, r.v)           \* 0x1e MVI E,$
      [] opcode = 31 -> alu_rar(s)                                             \* 0x1f RAR
      [] opcode = 33 -> LET r == get_next_word(s) IN set_hl(r.s, r.v)          \* 0x21 LXI H
      [] opcode = 34 -> alu_shld(s)                                            \* 0x22 SHLD #
      [] opcode = 35 -> set_hl(s, wrapping_add16(get_hl(s), 1))                \* 0x23 INX H
      [] opcode = 36 -> LET r == alu_inr(s, s.register.h) IN set_h(r.s, r.v)   \* 0x24 INR H
      [] opcode = 37 -> LET r == alu_dcr(s, s.register.h) IN set_h(r.s, r.v)   \* 0x25 DCR H
      [] opcode = 38 -> LET r == get_next_byte(s) IN set_h(r.s, r.v)           \* 0x26 MVI H,$
      [] opcode = 39 -> alu_daa(s)                                             \* 0x27 DAA
      [] opcode = 41 -> alu_dad(s, get_hl(s))                                  \* 0x29 DAD H
      [] opcode = 42 -> alu_lhld(s)                                            \* 0x2a LHLD #
      [] opcode = 43 -> set_hl(s, wrapping_sub16(get_hl(s), 1))                \* 0x2b DCX H
      [] opcode = 44 -> LET r == alu_inr(s, s.register.l) IN set_l(r.s, r.v)   \* 0x2c INR L
      [] opcode = 45 -> LET r == alu_dcr(s, s.register.l) IN set_l(r.s, r.v)   \* 0x2d DCR L
      [] opcode = 46 -> LET r == get_next_byte(s) IN set_l(r.s, r.v)           \* 0x2e MVI L,$
      [] opcode = 47 -> alu_cma(s)                                             \* 0x2f CMA
      [] opcode = 49 -> LET r == get_next_word(s) IN set_sp(r.s, r.v)          \* 0x31 LXI SP
      [] opcode = 50 -> alu_sta(s)                                             \* 0x32 STA #
      [] opcode = 51 -> set_sp(s, wrapping_add16(s.register.sp, 1))            \* 0x33 INX SP
      [] opcode = 52 -> LET r == alu_inr(s, get_m(s)) IN set_m(r.s, r.v)       \* 0x34 INR M
      [] opcode = 53 -> LET r == alu_dcr(s, get_m(s)) IN set_m(r.s, r.v)       \* 0x35 DCR M
      [] opcode = 54 -> LET r == get_next_byte(s) IN set_m(r.s, r.v)           \* 0x36 MVI M,$
      [] opcode = 55 -> alu_stc(s)                                             \* 0x37 STC
      [] opcode = 57 -> alu_dad(s, s.register.sp)                              \* 0x39 DAD SP
      [] opcode = 58 -> alu_lda(s)                                             \* 0x3a LDA #
      [] opcode = 59 -> set_sp(s, wrapping_sub16(s.register.sp, 1))            \* 0x3b DCX SP
      [] opcode = 60 -> LET r == alu_inr(s, s.register.a) IN set_a(r.s, r.v)   \* 0x3c INR A
      [] opcode = 61 -> LET r == alu_dcr(s, s.register.a) IN set_a(r.s, r.v)   \* 0x3d DCR A
      [] opcode = 62 -> LET r == get_next_byte(s) IN set_a(r.s, r.v)           \* 0x3e MVI A,$
      [] opcode = 63 -> alu_cmc(s)                                             \* 0x3f CMC
      [] OTHER -> s

\* the arms 0x40..0x7f of the match in Cpu::next
next_40_7f(s, opcode) ==
    CASE opcode = 64 -> s                                                      \* 0x40 MOV B,B
      [] opcode = 65 -> set_b(s, s.register.c)                                 \* 0x41 MOV B,C
      [] opcode = 66 -> set_b(s, s.register.d)                                 \* 0x42 MOV B,D
      [] opcode = 67 -> set_b(s, s.register.e)                                 \* 0x43 MOV B,E
      [] opcode = 68 -> set_b(s, s.register.h)                                 \* 0x44 MOV B,H
      [] opcode = 69 -> set_b(s, s.register.l)                                 \* 0x45 MOV B,L
      [] opcode = 70 -> set_b(s, get_m(s))                                     \* 0x46 MOV B,M
      [] opcode = 71 -> set_b(s, s.register.a)                                 \* 0x47 MOV B,A
      [] opcode = 72 -> set_c(s, s.register.b)                                 \* 0x48 MOV C,B
      [] opcode = 73 -> s                                                      \* 0x49 MOV C,C
      [] opcode = 74 -> set_c(s, s.register.d)                                 \* 0x4a MOV C,D
      [] opcode = 75 -> set_c(s, s.register.e)                                 \* 0x4b MOV C,E
      [] opcode = 76 -> set_c(s, s.register.h)                                 \* 0x4c MOV C,H
      [] opcode = 77 -> set_c(s, s.register.l)                                 \* 0x4d MOV C,L
      [] opcode = 78 -> set_c(s, get_m(s))                                     \* 0x4e MOV C,M
      [] opcode = 79 -> set_c(s, s.register.a)                                 \* 0x4f MOV C,A
      [] opcode = 80 -> set_d(s, s.register.b)                                 \* 0x50 MOV D,B
      [] opcode = 81 -> set_d(s, s.register.c)                                 \* 0x51 MOV D,C
      [] opcode = 82 -> s                                                      \* 0x52 MOV D,D
      [] opcode = 83 -> set_d(s, s.register.e)                                 \* 0x53 MOV D,E
      [] opcode = 84 -> set_d(s, s.register.h)                                 \* 0x54 MOV D,H
      [] opcode = 85 -> set_d(s, s.register.l)                                 \* 0x55 MOV D,L
      [] opcode = 86 -> set_d(s, get_m(s))                                     \* 0x56 MOV D,M
      [] opcode = 87 -> set_d(s, s.register.a)                                 \* 0x57 MOV D,A
      [] opcode = 88 -> set_e(s, s.register.b)                                 \* 0x58 MOV E,B
      [] opcode = 89 -> set_e(s, s.register.c)                                 \* 0x59 MOV E,C
      [] opcode = 90 -> set_e(s, s.register.d)                                 \* 0x5a MOV E,D
      [] opcode = 91 -> s                                                      \* 0x5b MOV E,E
      [] opcode = 92 -> set_e(s, s.register.h)                                 \* 0x5c MOV E,H
      [] opcode = 93 -> set_e(s, s.register.l)                                 \* 0x5d MOV E,L
      [] opcode = 94 -> set_e(s, get_m(s))                                     \* 0x5e MOV E,M
      [] opcode = 95 -> set_e(s, s.register.a)                                 \* 0x5f MOV E,A
      [] opcode = 96 -> set_h(s, s.register.b)                                 \* 0x60 MOV H,B
      [] opcode = 97 -> set_h(s, s.register.c)                                 \* 0x61 MOV H,C
      [] opcode = 98 -> set_h(s, s.register.d)                                 \* 0x62 MOV H,D
      [] opcode = 99 -> set_h(s, s.register.e)                                 \* 0x63 MOV H,E
      [] opcode = 100 -> s                                                     \* 0x64 MOV H,H
      [] opcode = 101 -> set_h(s, s.register.l)                                \* 0x65 MOV H,L
      [] opcode = 102 -> set_h(s, get_m(s))                                    \* 0x66 MOV H,M
      [] opcode = 103 -> set_h(s, s.register.a)                                \* 0x67 MOV H,A
      [] opcode = 104 -> set_l(s, s.register.b)                                \* 0x68 MOV L,B
      [] opcode = 105 -> set_l(s, s.register.c)                                \* 0x69 MOV L,C
      [] opcode = 106 -> set_l(s, s.register.d)                                \* 0x6a MOV L,D
      [] opcode = 107 -> set_l(s, s.register.e)                                \* 0x6b MOV L,E
      [] opcode = 108 -> set_l(s, s.register.h)                                \* 0x6c MOV L,H
      [] opcode = 109 -> s                                                     \* 0x6d MOV L,L
      [] opcode = 110 -> set_l(s, get_m(s))                                    \* 0x6e MOV L,M
      [] opcode = 111 -> set_l(s, s.register.a)                                \* 0x6f MOV L,A
      [] opcode = 112 -> set_m(s, s.register.b)                                \* 0x70 MOV M,B
      [] opcode = 113 -> set_m(s, s.register.c)                                \* 0x71 MOV M,C
      [] opcode = 114 -> set_m(s, s.register.d)                                \* 0x72 MOV M,D
      [] opcode = 115 -> set_m(s, s.register.e)                                \* 0x73 MOV M,E
      [] opcode = 116 -> set_m(s, s.register.h)                                \* 0x74 MOV M,H
      [] opcode = 117 -> set_m(s, s.register.l)                                \* 0x75 MOV M,L
      [] opcode = 118 -> set_stop(s, TRUE)                                     \* 0x76 HLT STOP
      [] opcode = 119 -> set_m(s, s.register.a)                                \* 0x77 MOV M,A
      [] opcode = 120 -> set_a(s, s.register.b)                                \* 0x78 MOV A,B
      [] opcode = 121 -> set_a(s, s.register.c)                                \* 0x79 MOV A,C
      [] opcode = 122 -> set_a(s, s.register.d)                                \* 0x7a MOV A,D
      [] opcode = 123 -> set_a(s, s.register.e)                                \* 0x7b MOV A,E
      [] opcode = 124 -> set_a(s, s.register.h)                                \* 0x7c MOV A,H
      [] opcode = 125 -> set_a(s, s.register.l)                                \* 0x7d MOV A,L
      [] opcode = 126 -> set_a(s, get_m(s))                                    \* 0x7e MOV A,M
      [] opcode = 127 -> s                                                     \* 0x7f MOV A,A
      [] OTHER -> s

\* the arms 0x80..0xbf of the match in Cpu::next
next_80_bf(s, opcode) ==
    CASE opcode = 128 -> alu_add(s, s.register.b)                              \* 0x80 ADD B
      [] opcode = 129 -> alu_add(s, s.register.c)                              \* 0x81 ADD C
      [] opcode = 130 -> alu_add(s, s.register.d)                              \* 0x82 ADD D
      [] opcode = 131 -> alu_add(s, s.register.e)                              \* 0x83 ADD E
      [] opcode = 132 -> alu_add(s, s.register.h)                              \* 0x84 ADD H
      [] opcode = 133 -> alu_add(s, s.register.l)                              \* 0x85 ADD L
      [] opcode = 134 -> alu_add(s, get_m(s))                                  \* 0x86 ADD M
      [] opcode = 135 -> alu_add(s, s.register.a)                              \* 0x87 ADD A
      [] opcode = 136 -> alu_adc(s, s.register.b)                              \* 0x88 ADC B
      [] opcode = 137 -> alu_adc(s, s.register.c)                              \* 0x89 ADC C
      [] opcode = 138 -> alu_adc(s, s.register.d)                              \* 0x8a ADC D
      [] opcode = 139 -> alu_adc(s, s.register.e)                              \* 0x8b ADC E
      [] opcode = 140 -> alu_adc(s, s.register.h)                              \* 0x8c ADC H
      [] opcode = 141 -> alu_adc(s, s.register.l)                              \* 0x8d ADC L
      [] opcode = 142 -> alu_adc(s, get_m(s))                                  \* 0x8e ADC M
      [] opcode = 143 -> alu_adc(s, s.register.a)                              \* 0x8f ADC A
      [] opcode = 144 -> alu_sub(s, s.register.b)                              \* 0x90 SUB B
      [] opcode = 145 -> alu_sub(s, s.register.c)                              \* 0x91 SUB C
      [] opcode = 146 -> alu_sub(s, s.register.d)                              \* 0x92 SUB D
      [] opcode = 147 -> alu_sub(s, s.register.e)                              \* 0x93 SUB E
      [] opcode = 148 -> alu_sub(s, s.register.h)                              \* 0x94 SUB H
      [] opcode = 149 -> alu_sub(s, s.register.l)                              \* 0x95 SUB L
      [] opcode = 150 -> alu_sub(s, get_m(s))                                  \* 0x96 SUB M
      [] opcode = 151 -> alu_sub(s, s.register.a)                              \* 0x97 SUB A
      [] opcode = 152 -> alu_sbb(s, s.register.b)                              \* 0x98 SBB B
      [] opcode = 153 -> alu_sbb(s, s.register.c)                              \* 0x99 SBB C
      [] opcode = 154 -> alu_sbb(s, s.register.d)                              \* 0x9a SBB D
      [] opcode = 155 -> alu_sbb(s, s.register.e)                              \* 0x9b SBB E
      [] opcode = 156 -> alu_sbb(s, s.register.h)                              \* 0x9c SBB H
      [] opcode = 157 -> alu_sbb(s, s.register.l)                              \* 0x9d SBB L
      [] opcode = 158 -> alu_sbb(s, get_m(s))                                  \* 0x9e SBB M
      [] opcode = 159 -> alu_sbb(s, s.register.a)                              \* 0x9f SBB A
      [] opcode = 160 -> alu_ana(s, s.register.b)                              \* 0xa0 ANA B
      [] opcode = 161 -> alu_ana(s, s.register.c)                              \* 0xa1 ANA C
      [] opcode = 162 -> alu_ana(s, s.register.d)                              \* 0xa2 ANA D
      [] opcode = 163 -> alu_ana(s, s.register.e)                              \* 0xa3 ANA E
      [] opcode = 164 -> alu_ana(s, s.register.h)                              \* 0xa4 ANA H
      [] opcode = 165 -> alu_ana(s, s.register.l)                              \* 0xa5 ANA L
      [] opcode = 166 -> alu_ana(s, get_m(s))                                  \* 0xa6 ANA M
      [] opcode = 167 -> alu_ana(s, s.register.a)                              \* 0xa7 ANA A
      [] opcode = 168 -> alu_xra(s, s.register.b)                              \* 0xa8 XRA B
      [] opcode = 169 -> alu_xra(s, s.register.c)                              \* 0xa9 XRA C
      [] opcode = 170 -> alu_xra(s, s.register.d)                              \* 0xaa XRA D
      [] opcode = 171 -> alu_xra(s, s.register.e)                              \* 0xab XRA E
      [] opcode = 172 -> alu_xra(s, s.register.h)                              \* 0xac XRA H
      [] opcode = 173 -> alu_xra(s, s.register.l)                              \* 0xad XRA L
      [] opcode = 174 -> alu_xra(s, get_m(s))                                  \* 0xae XRA M
      [] opcode = 175 -> alu_xra(s, s.register.a)                              \* 0xaf XRA A
      [] opcode = 176 -> alu_ora(s, s.register.b)                              \* 0xb0 ORA B
      [] opcode = 177 -> alu_ora(s, s.register.c)                              \* 0xb1 ORA C
      [] opcode = 178 -> alu_ora(s, s.register.d)                              \* 0xb2 ORA D
      [] opcode = 179 -> alu_ora(s, s.register.e)                              \* 0xb3 ORA E
      [] opcode = 180 -> alu_ora(s, s.register.h)                              \* 0xb4 ORA H
      [] opcode = 181 -> alu_ora(s, s.register.l)                              \* 0xb5 ORA L
      [] opcode = 182 -> alu_ora(s, get_m(s))                                  \* 0xb6 ORA M
      [] opcode = 183 -> alu_ora(s, s.register.a)                              \* 0xb7 ORA A
      [] opcode = 184 -> alu_cmp(s, s.register.b)                              \* 0xb8 CMP B
      [] opcode = 185 -> alu_cmp(s, s.register.c)                              \* 0xb9 CMP C
      [] opcode = 186 -> alu_cmp(s, s.register.d)                              \* 0xba CMP D
      [] opcode = 187 -> alu_cmp(s, s.register.e)                              \* 0xbb CMP E
      [] opcode = 188 -> alu_cmp(s, s.register.h)                              \* 0xbc CMP H
      [] opcode = 189 -> alu_cmp(s, s.register.l)                              \* 0xbd CMP L
      [] opcode = 190 -> alu_cmp(s, get_m(s))                                  \* 0xbe CMP M
      [] opcode = 191 -> alu_cmp(s, s.register.b)                              \* 0xbf CMP A
      [] OTHER -> s

\* the arms 0xc0..0xff of the match in Cpu::next
next_c0_ff(s, opcode) ==
    CASE opcode = 192 -> alu_ret(s, ~get_flag(s, Zero))                        \* 0xc0 RNZ
      [] opcode = 193 -> LET r == stack_pop(s) IN set_bc(r.s, r.v)             \* 0xc1 POP B
      [] opcode = 194 -> alu_jmp(s, ~get_flag(s, Zero))                        \* 0xc2 JNZ #
      [] opcode = 195 -> alu_jmp(s, TRUE)                                      \* 0xc3 JUMP #
      [] opcode = 196 -> alu_call(s, ~get_flag(s, Zero))                       \* 0xc4 CNZ #
      [] opcode = 197 -> stack_push(s, get_bc(s))                              \* 0xc5 PUSH B
      [] opcode = 198 -> LET r == get_next_byte(s) IN alu_add(r.s, r.v)        \* 0xc6 ADI #$
      [] opcode = 199 -> alu_rst(s, 0)                                         \* 0xc7 RST 0
      [] opcode = 200 -> alu_ret(s, get_flag(s, Zero))                         \* 0xc8 RN
      [] opcode = 201 -> alu_ret(s, TRUE)                                      \* 0xc9 RET
      [] opcode = 202 -> alu_jmp(s, get_flag(s, Zero))                         \* 0xca JZ
      [] opcode = 204 -> alu_call(s, get_flag(s, Zero))                        \* 0xcc CZ
      [] opcode = 205 -> alu_call(s, TRUE)                                     \* 0xcd CALL #
      [] opcode = 206 -> LET r == get_next_byte(s) IN alu_adc(r.s, r.v)        \* 0xce ACI #$
      [] opcode = 207 -> alu_rst(s, 1)                                         \* 0xcf RST 1
      [] opcode = 208 -> alu_ret(s, ~get_flag(s, Carry))                       \* 0xd0 RNC
      [] opcode = 209 -> LET r == stack_pop(s) IN set_de(r.s, r.v)             \* 0xd1 POP D
      [] opcode = 210 -> alu_jmp(s, ~get_flag(s, Carry))                       \* 0xd2 JNC #
      [] opcode = 211 -> get_next_byte(s).s                                    \* 0xd3 OUT port
      [] opcode = 212 -> alu_call(s, ~get_flag(s, Carry))                      \* 0xd4 CNC #
      [] opcode = 213 -> stack_push(s, get_de(s))                              \* 0xd5 PUSH BD
      [] opcode = 214 -> LET r == get_next_byte(s) IN alu_sbb(r.s, r.v)        \* 0xd6 SBB #$
      [] opcode = 215 -> alu_rst(s, 2)                                         \* 0xd7 RST 2
      [] opcode = 216 -> alu_ret(s, get_flag(s, Carry))                        \* 0xd8 RC
      [] opcode = 218 -> alu_jmp(s, get_flag(s, Carry))                        \* 0xda JC
      [] opcode = 219 -> get_next_byte(s).s                                    \* 0xdb IN
      [] opcode = 220 -> alu_call(s, get_flag(s, Carry))                       \* 0xdc CC
      [] opcode = 222 -> LET r == get_next_byte(s) IN alu_sbb(r.s, r.v)        \* 0xde SBI #$
      [] opcode = 223 -> alu_rst(s, 3)                                         \* 0xdf RST 3
      [] opcode = 224 -> alu_ret(s, ~get_flag(s, Parity))                      \* 0xe0 RPO
      [] opcode = 225 -> LET r == stack_pop(s) IN set_hl(r.s, r.v)             \* 0xe1 POP H
      [] opcode = 226 -> alu_jmp(s, ~get_flag(s, Parity))                      \* 0xe2 JPO #
      [] opcode = 227 -> alu_xthl(s)                                           \* 0xe3 XTHL
      [] opcode = 228 -> alu_call(s, ~get_flag(s, Parity))                     \* 0xe4 CPO #
      [] opcode = 229 -> stack_push(s, get_hl(s))                              \* 0xe5 PUSH H
      [] opcode = 230 -> LET r == get_next_byte(s) IN alu_ana(r.s, r.v)        \* 0xe6 ANI #$
      [] opcode = 231 -> alu_rst(s, 4)                                         \* 0xe7 RST 4
      [] opcode = 232 -> alu_ret(s, get_flag(s, Parity))                       \* 0xe8 RPE
      [] opcode = 233 -> set_pc(s, get_hl(s))                                  \* 0xe9 PCHL
      [] opcode = 234 -> alu_jmp(s, get_flag(s, Parity))                       \* 0xea JPE #
      [] opcode = 235 -> alu_xchg(s)                                           \* 0xeb XCHG
      [] opcode = 236 -> alu_call(s, get_flag(s, Parity))                      \* 0xec CPE #
      [] opcode = 238 -> LET r == get_next_byte(s) IN alu_xra(r.s, r.v)        \* 0xee XRI #$
      [] opcode = 239 -> alu_rst(s, 5)                                         \* 0xef RST 5
      [] opcode = 240 -> alu_ret(s, ~get_flag(s, Sign))                        \* 0xf0 RP
      [] opcode = 241 -> LET r == stack_pop(s) IN set_af(r.s, r.v)             \* 0xf1 POP PSW
      [] opcode = 242 -> alu_jmp(s, ~get_flag(s, Sign))                        \* 0xf2 JP
      [] opcode = 243 -> set_interrupt(s, FALSE)                               \* 0xf3 DI
      [] opcode = 244 -> alu_call(s, ~get_flag(s, Sign))                       \* 0xf4 CP
      [] opcode = 245 -> stack_push(s, get_af(s))                              \* 0xf5 PUSH PSW
      [] opcode = 246 -> LET r == get_next_byte(s) IN alu_ora(r.s, r.v)        \* 0xf6 ORI #$
      [] opcode = 247 -> alu_rst(s, 6)                                         \* 0xf7 RST 6
      [] opcode = 248 -> alu_ret(s, get_flag(s, Sign))                         \* 0xf8 RM
      [] opcode = 249 -> set_sp(s, get_hl(s))                                  \* 0xf9 SPHL
      [] opcode = 250 -> alu_jmp(s, get_flag(s, Sign))                         \* 0xfa JM
      [] opcode = 251 -> set_interrupt(s, TRUE)                                \* 0xfb EI
      [] opcode = 252 -> alu_call(s, get_flag(s, Sign))                        \* 0xfc CN
      [] opcode = 254 -> LET r == get_next_byte(s) IN alu_cmp(r.s, r.v)        \* 0xfe CPI #$
      [] opcode = 255 -> alu_rst(s, 7)                                         \* 0xff RST 7
      [] OTHER -> s

\* the match of Cpu::next on `opcode`; the default arm `_ => {}` takes the
\* twelve bytes no arm names
next_match(s, opcode) ==
    IF opcode < 64 THEN next_00_3f(s, opcode)
    ELSE IF opcode < 128 THEN next_40_7f(s, opcode)
    ELSE IF opcode < 192 THEN next_80_bf(s, opcode)
    ELSE next_c0_ff(s, opcode)

\* Cpu::next: `let opcode = 1;` and the match on it
next(s) ==
    LET opcode == 1
    IN  next_match(s, opcode)

----------------------------------------------------------------------------
(* The interrupt entry point of the core                                   *)

\* interrupt(opcode_byte) -> bool: accepted iff interrupts are enabled; an
\* accepted request clears `interrupt` and `stop` and executes the supplied
\* opcode through the match of Cpu::next, with no fetch from memory
Cpu_interrupt(s, opcode_byte) ==
    IF s.interrupt
    THEN Ret(next_match([s EXCEPT !.interrupt = FALSE, !.stop = FALSE], opcode_byte), TRUE)
    ELSE Ret(s, FALSE)

----------------------------------------------------------------------------
(* The state machine                                                       *)

Cpu ==
    [register |-> register, memory |-> memory, stop |-> stop,
     interrupt |-> interrupt, panicked |-> panicked]

\* the host loads `bytes` at addr, addr + 1, ... (an image may wrap past 0xFFFF)
RECURSIVE LoadBytes(_, _, _)
LoadBytes(data, addr, bytes) ==
    IF bytes = <<>> THEN data
    ELSE LoadBytes(Store(data, addr % MemSize, Head(bytes)), addr + 1, Tail(bytes))

\* Memory::new: every byte is 0
Memory_new == <<>>

\* one entry of hist: the operation, its arguments, what it returned and the
\* state it was applied to
Entry(kind, arg, val, ret, accepted) ==
    [kind |-> kind, arg |-> arg, val |-> val, ret |-> ret, accepted |-> accepted,
     pre |-> Cpu]

Commit(t, entry) ==
    /\ register' = t.register
    /\ memory' = t.memory
    /\ stop' = t.stop
    /\ interrupt' = t.interrupt
    /\ panicked' = t.panicked
    /\ hist' = Append(hist, entry)
    /\ UNCHANGED <<overflow_checks, irq_opcode>>

CanRun == ~panicked /\ Len(hist) < MaxOps

\* the host calls Cpu::next
Step ==
    /\ CanRun
    /\ Commit(next(Cpu), Entry("next", 0, 0, 0, FALSE))

\* the device raises its interrupt line and supplies irq_opcode
Interrupt ==
    /\ CanRun
    /\ LET r == Cpu_interrupt(Cpu, irq_opcode)
       IN  Commit(r.s, Entry("interrupt", irq_opcode, 0, 0, r.v))

\* the states the host starts the core from: the registers after Register::new,
\* or registers and flags it has set, over an image it has loaded
PcInit == {256, 65534, 65535}           \* 0x0100, 0xFFFE, 0xFFFF
SpInit == {9216, 1}                     \* 0x2400, 0x0001
FInit == {2, 215}                       \* no flag set; S, Z, AC, P and CY set
ProgInit == {0, 8, 6, 118, 196}         \* NOP, 0x08, MVI B, HLT, CNZ at PC
OperandBytes == <<0, 2>>                \* the immediate 0x0200
StackBytes == <<255, 1>>                \* the word 0x01FF on top of the stack

HostRegisters(f, sp, pc) ==
    [a |-> 58, f |-> f, b |-> 18, c |-> 52, d |-> 86, e |-> 120, h |-> 36, l |-> 16,
     sp |-> sp, pc |-> pc]

HostImage(op, sp, pc) ==
    LoadBytes(LoadBytes(LoadBytes(LoadBytes(Memory_new, 9232, <<153>>), 512, <<201>>),
                        pc, <<op>> \o OperandBytes),
              sp, StackBytes)

Init ==
    /\ \/ /\ register = Register_new
          /\ memory = Memory_new
       \/ \E f \in FInit, sp \in SpInit, pc \in PcInit, op \in ProgInit :
             /\ register = HostRegisters(f, sp, pc)
             /\ memory = HostImage(op, sp, pc)
    /\ stop = FALSE
    /\ interrupt \in BOOLEAN
    /\ panicked = FALSE
    /\ overflow_checks \in BOOLEAN
    /\ irq_opcode \in 0 .. 255
    /\ hist = <<>>

Next == Step \/ Interrupt

Spec == Init /\ [][Next]_vars

----------------------------------------------------------------------------
(* The stack instructions on their own: the arms PUSH rp and POP rp of the *)
(* match, applied to states drawn from bounded sets                        *)

PushOpcodes == {197, 213, 229}          \* 0xc5 PUSH B, 0xd5 PUSH D, 0xe5 PUSH H
PopOpcodes == {193, 209, 225}           \* 0xc1 POP B, 0xd1 POP D, 0xe1 POP H
SpStackInit == {9216, 0, 1, 2, 65535}   \* 0x2400 and the ends of the address space

Push(opcode) ==
    /\ CanRun
    /\ Commit(next_match(Cpu, opcode), Entry("push", opcode, 0, 0, FALSE))

Pop(opcode) ==
    /\ CanRun
    /\ Commit(next_match(Cpu, opcode), Entry("pop", opcode, 0, 0, FALSE))

InitStack ==
    /\ \E sp \in SpStackInit :
          /\ register = HostRegisters(2, sp, 256)
          /\ memory = LoadBytes(Memory_new, sp, StackBytes)
    /\ stop = FALSE
    /\ interrupt = FALSE
    /\ panicked = FALSE
    /\ overflow_checks \in BOOLEAN
    /\ irq_opcode = 0
    /\ hist = <<>>

NextStack ==
    \/ \E opcode \in PushOpcodes : Push(opcode)
    \/ \E opcode \in PopOpcodes : Pop(opcode)

SpecStack == InitStack /\ [][NextStack]_vars

----------------------------------------------------------------------------
(* The word helpers of Memory on their own, called by the host             *)

AddrSet == {0, 9216, 65534, 65535}      \* 0x0000, 0x2400, 0xFFFE, 0xFFFF
WordSet == {0, 4660, 43981, 65535}      \* 0x0000, 0x1234, 0xABCD, 0xFFFF

MemSetWord(idx, value) ==
    /\ CanRun
    /\ Commit(set_word(Cpu, idx, value), Entry("set_word", idx, value, 0, FALSE))

MemGetWord(idx) ==
    /\ CanRun
    /\ IF get_word_ok(idx)
       THEN Commit(Cpu, Entry("get_word", idx, 0, get_word(Cpu, idx), FALSE))
       ELSE Commit(Panic(Cpu), Entry("get_word", idx, 0, 0, FALSE))

InitMemory ==
    /\ register = Register_new
    /\ memory \in {Memory_new, LoadBytes(Memory_new, 65535, <<52, 18>>)}
    /\ stop = FALSE
    /\ interrupt = FALSE
    /\ panicked = FALSE
    /\ overflow_checks \in BOOLEAN
    /\ irq_opcode = 0
    /\ hist = <<>>

NextMemory ==
    \/ \E idx \in AddrSet, value \in WordSet : MemSetWord(idx, value)
    \/ \E idx \in AddrSet : MemGetWord(idx)

SpecMemory == InitMemory /\ [][NextMemory]_vars

----------------------------------------------------------------------------
(* Single arms of the match, applied to states drawn from bounded sets     *)

MaxArms == 1           \* arms applied in one behaviour by Arith

\* an arm of the match is run on the current state, MaxArms times at most
Arith(opcode) ==
    /\ ~panicked
    /\ Len(hist) < MaxArms
    /\ Commit(next_match(Cpu, opcode), Entry("arm", opcode, 0, 0, FALSE))

\* an arm of the match is run on the current state, MaxOps times at most
Execute(opcode) ==
    /\ CanRun
    /\ Commit(next_match(Cpu, opcode), Entry("arm", opcode, 0, 0, FALSE))

\* the arithmetic on the accumulator: every A, operands in B, and CY and AC
\* each set and clear beforehand
AluOpcodes == {128, 136, 144, 152, 39, 31}  \* ADD B, ADC B, SUB B, SBB B, DAA, RAR
ASet == 0 .. 255
VSet == {0, 1, 9, 15, 16, 102, 127, 128, 198, 255}
FAlu == {2, 18, 199, 215}      \* no flag; AC; S, Z, P and CY; all five flags

InitAlu ==
    /\ \E a \in ASet, v \in VSet, f \in FAlu :
          register = [HostRegisters(f, 9216, 256) EXCEPT !.a = a, !.b = v]
    /\ memory = Memory_new
    /\ stop = FALSE
    /\ interrupt = FALSE
    /\ panicked = FALSE
    /\ overflow_checks = FALSE
    /\ irq_opcode = 0
    /\ hist = <<>>

NextAlu == \E opcode \in AluOpcodes : Arith(opcode)

SpecAlu == InitAlu /\ [][NextAlu]_vars

\* the branches: JMP, CALL, RET and their eight conditional forms, with the
\* operand 0x0200 at PC and the word 0x01FF on top of the stack
BranchOpcodes == {opcode \in 192 .. 255 : opcode % 8 \in {0, 2, 4}} \cup {195, 205, 201}
SpBranchInit == {9216, 1, 65535}        \* 0x2400, 0x0001, 0xFFFF

InitBranch ==
    /\ \E f \in FInit, sp \in SpBranchInit, pc \in PcInit :
          /\ register = HostRegisters(f, sp, pc)
          /\ memory = LoadBytes(LoadBytes(Memory_new, pc, OperandBytes), sp, StackBytes)
    /\ stop = FALSE
    /\ interrupt = FALSE
    /\ panicked = FALSE
    /\ overflow_checks \in BOOLEAN
    /\ irq_opcode = 0
    /\ hist = <<>>

NextBranch == \E opcode \in BranchOpcodes : Arith(opcode)

SpecBranch == InitBranch /\ [][NextBranch]_vars

\* the top of the stack: XTHL, PUSH PSW, POP PSW and the AF accessors, from
\* every F (the fields of Register are public), with the bytes 0xF0, 0x0D
\* at SP and HL = 0x0B3C
StackTopOpcodes == {227, 245, 241}      \* 0xe3 XTHL, 0xf5 PUSH PSW, 0xf1 POP PSW
SpTopInit == {4269, 0, 1, 65535}        \* 0x10AD and the ends of the address space
TopBytes == <<240, 13>>                 \* the word 0x0DF0 on top of the stack

\* the host hands the AF pair back to the register file
SetAfGetAf ==
    /\ CanRun
    /\ Commit(set_af(Cpu, get_af(Cpu)), Entry("set_af", get_af(Cpu), 0, 0, FALSE))

InitStackTop ==
    /\ \E f \in 0 .. 255, sp \in SpTopInit :
          /\ register = [HostRegisters(f, sp, 256) EXCEPT !.h = 11, !.l = 60]
          /\ memory = LoadBytes(Memory_new, sp, TopBytes)
    /\ stop = FALSE
    /\ interrupt = FALSE
    /\ panicked = FALSE
    /\ overflow_checks = FALSE
    /\ irq_opcode = 0
    /\ hist = <<>>

NextStackTop ==
    \/ \E opcode \in StackTopOpcodes : Execute(opcode)
    \/ SetAfGetAf

SpecStackTop == InitStackTop /\ [][NextStackTop]_vars

\* instructions with one immediate byte (CPI, IN, OUT, SUI), next to CMP B:
\* the byte v is in B and at PC, and PC is 0x0100 or the last address
ImmediateOpcodes == {184, 254, 219, 211, 214}   \* CMP B, CPI, IN, OUT, SUI
PcImmInit == {256, 65535}                   \* 0x0100, 0xFFFF

InitImmediate ==
    /\ \E a \in ASet, v \in VSet, f \in FInit, pc \in PcImmInit :
          /\ register = [HostRegisters(f, 9216, pc) EXCEPT !.a = a, !.b = v]
          /\ memory = LoadBytes(Memory_new, pc, <<v>>)
    /\ stop = FALSE
    /\ interrupt = FALSE
    /\ panicked = FALSE
    /\ overflow_checks \in BOOLEAN
    /\ irq_opcode = 0
    /\ hist = <<>>

NextImmediate == \E opcode \in ImmediateOpcodes : Arith(opcode)

SpecImmediate == InitImmediate /\ [][NextImmediate]_vars

\* the regular block 0x80 .. 0xbf: the eight operations on the eight sources,
\* with every register and memory[HL] holding a different byte
BlockOpcodes == 128 .. 191
ABlockInit == {58, 0, 255}

InitAluBlock ==
    /\ \E a \in ABlockInit, f \in FInit :
          register = [HostRegisters(f, 9216, 256) EXCEPT !.a = a]
    /\ memory = HostImage(0, 9216, 256)
    /\ stop = FALSE
    /\ interrupt = FALSE
    /\ panicked = FALSE
    /\ overflow_checks = FALSE
    /\ irq_opcode = 0
    /\ hist = <<>>

NextAluBlock == \E opcode \in BlockOpcodes : Arith(opcode)

SpecAluBlock == InitAluBlock /\ [][NextAluBlock]_vars

\* increment, decrement and the logical operations: every A, operands in B,
\* and CY and AC each set and clear beforehand
LogicOpcodes == {60, 61, 160, 168, 176}     \* INR A, DCR A, ANA B, XRA B, ORA B

InitLogic == InitAlu

NextLogic == \E opcode \in LogicOpcodes : Arith(opcode)

SpecLogic == InitLogic /\ [][NextLogic]_vars

\* DAD: HL and BC drawn from words around the carry, DE fixed, SP at both ends
DadOpcodes == {9, 25, 41, 57}               \* DAD B, DAD D, DAD H, DAD SP
HlSet == {0, 1, 13215, 32767, 32768, 65535} \* 0x339F among them
SpDadInit == {9216, 65535}

InitDad ==
    /\ \E hl \in HlSet, bc \in HlSet, sp \in SpDadInit, f \in FAlu :
          /\ register = [HostRegisters(f, sp, 256) EXCEPT
                            !.h = hl \div 256, !.l = hl % 256,
                            !.b = bc \div 256, !.c = bc % 256]
          /\ memory = HostImage(0, 9216, 256)
    /\ stop = FALSE
    /\ interrupt = FALSE
    /\ panicked = FALSE
    /\ overflow_checks = FALSE
    /\ irq_opcode = 0
    /\ hist = <<>>

NextDad == \E opcode \in DadOpcodes : Arith(opcode)

SpecDad == InitDad /\ [][NextDad]_vars

\* the instructions documented as touching CY alone, and CMA: every A, and
\* CY and AC each set and clear beforehand
\* RLC, RRC, RAL, RAR, CMC, STC, DAD B, DAD D, DAD H, DAD SP
CarryOnlyOpcodes == {7, 15, 23, 31, 63, 55, 9, 25, 41, 57}
CmaOpcode == {47}                           \* 0x2f CMA

InitCarryOnly ==
    /\ \E a \in ASet, f \in FAlu :
          register = [HostRegisters(f, 9216, 256) EXCEPT !.a = a]
    /\ memory = Memory_new
    /\ stop = FALSE
    /\ interrupt = FALSE
    /\ panicked = FALSE
    /\ overflow_checks = FALSE
    /\ irq_opcode = 0
    /\ hist = <<>>

NextCarryOnly == \E opcode \in CarryOnlyOpcodes \cup CmaOpcode : Arith(opcode)

SpecCarryOnly == InitCarryOnly /\ [][NextCarryOnly]_vars

\* two rotates in a row, from every A with CY set and clear
RotateOpcodes == {7, 15, 23, 31}            \* RLC, RRC, RAL, RAR

InitRotate == InitCarryOnly

NextRotate == \E opcode \in RotateOpcodes : Execute(opcode)

SpecRotate == InitRotate /\ [][NextRotate]_vars

\* decimal addition: every packed-BCD byte in A, packed-BCD operands in B,
\* an addition and then DAA
BcdOpcodes == {128, 136, 39}                \* ADD B, ADC B, DAA
BcdBytes == {16 * hi + lo : hi \in 0 .. 9, lo \in 0 .. 9}
BcdDigits == {0, 1, 4, 5, 6, 8, 9}
BcdOperands == {16 * hi + lo : hi \in BcdDigits, lo \in BcdDigits}
FBcd == {2, 199}                            \* no flag; S, Z, P and CY

InitBcd ==
    /\ \E x \in BcdBytes, y \in BcdOperands, f \in FBcd :
          register = [HostRegisters(f, 9216, 256) EXCEPT !.a = x, !.b = y]
    /\ memory = Memory_new
    /\ stop = FALSE
    /\ interrupt = FALSE
    /\ panicked = FALSE
    /\ overflow_checks = FALSE
    /\ irq_opcode = 0
    /\ hist = <<>>

NextBcd == \E opcode \in BcdOpcodes : Execute(opcode)

SpecBcd == InitBcd /\ [][NextBcd]_vars

\* the stack as a stack: pushes, pops, CALL and RET in sequences of MaxStackOps,
\* with CALL 0x0200 at 0x0100 and CALL 0x0300 at 0x0200
MaxStackOps == 4       \* arms applied in one behaviour of SpecLifo
LifoOpcodes == {197, 213, 193, 225, 205, 201}   \* PUSH B, PUSH D, POP B, POP H, CALL, RET
SpLifoInit == {9216, 0, 3}                      \* 0x2400, 0x0000, 0x0003

StackArm(opcode) ==
    /\ ~panicked
    /\ Len(hist) < MaxStackOps
    /\ Commit(next_match(Cpu, opcode), Entry("arm", opcode, 0, 0, FALSE))

InitLifo ==
    /\ \E sp \in SpLifoInit :
          /\ register = HostRegisters(2, sp, 256)
          /\ memory = LoadBytes(LoadBytes(LoadBytes(Memory_new, 256, <<0, 2>>),
                                          512, <<0, 3>>),
                                sp, StackBytes)
    /\ stop = FALSE
    /\ interrupt = FALSE
    /\ panicked = FALSE
    /\ overflow_checks \in BOOLEAN
    /\ irq_opcode = 0
    /\ hist = <<>>

NextLifo == \E opcode \in LifoOpcodes : StackArm(opcode)

SpecLifo == InitLifo /\ [][NextLifo]_vars

----------------------------------------------------------------------------
(* What the claims speak of                                                *)

Last == hist[Len(hist)]

Acted(kind) == Len(hist) > 0 /\ Last.kind = kind

\* the state the last operation was applied to
Pre == Last.pre

\* the byte at PC before the last operation
FetchedOpcode == Load(Pre.memory, Pre.register.pc)

\* the 16-bit immediate after the opcode at PC, little-endian, wrapping
FetchedImm16 ==
    Load(Pre.memory, (Pre.register.pc + 1) % Word)
        + 256 * Load(Pre.memory, (Pre.register.pc + 2) % Word)

\* the little-endian word of `data` at addr, wrapping at the top of the address space
WordAt(data, addr) == Load(data, addr % Word) + 256 * Load(data, (addr + 1) % Word)

UnspecifiedOpcodes == {8, 16, 24, 32, 40, 48, 56, 203, 217, 221, 237, 253}

\* the condition bits 3..5 of a conditional JMP / CALL / RET, on the flags f
ConditionHolds(opcode, f) ==
    LET cc == (opcode \div 8) % 8
    IN  CASE cc = 0 -> ~bit_get(f, Zero)
          [] cc = 1 -> bit_get(f, Zero)
          [] cc = 2 -> ~bit_get(f, Carry)
          [] cc = 3 -> bit_get(f, Carry)
          [] cc = 4 -> ~bit_get(f, Parity)
          [] cc = 5 -> bit_get(f, Parity)
          [] cc = 6 -> ~bit_get(f, Sign)
          [] cc = 7 -> bit_get(f, Sign)

IsJmp(opcode) == opcode = 195 \/ (opcode >= 192 /\ opcode % 8 = 2)
IsCall(opcode) == opcode = 205 \/ (opcode >= 192 /\ opcode % 8 = 4)
IsRet(opcode) == opcode = 201 \/ (opcode >= 192 /\ opcode % 8 = 0)
IsRst(opcode) == opcode >= 192 /\ opcode % 8 = 7
IsPchl(opcode) == opcode = 233

Taken(opcode, f) == opcode \in {195, 205, 201} \/ ConditionHolds(opcode, f)

TakenTransfer(opcode, f) ==
    \/ (IsJmp(opcode) \/ IsCall(opcode) \/ IsRet(opcode)) /\ Taken(opcode, f)
    \/ IsRst(opcode)
    \/ IsPchl(opcode)

\* the encoded length of the instruction
InstructionLength(opcode) ==
    IF \/ opcode \in {1, 17, 33, 49, 58, 50, 42, 34}
       \/ IsJmp(opcode) \/ IsCall(opcode)
    THEN 3
    ELSE IF \/ (opcode < 64 /\ opcode % 8 = 6)
            \/ opcode \in {198, 206, 214, 222, 230, 238, 246, 254, 219, 211}
    THEN 2
    ELSE 1

----------------------------------------------------------------------------
(* C1: one call of Cpu::next executes the instruction whose opcode is the  *)
(* byte at PC: it advances PC by 1 for the fetch and performs the arm of   *)
(* that byte; with 0x00 at PC only PC changes, with 0x76 at PC the core    *)
(* is halted afterwards.                                                   *)
C1_StepExecutesFetchedOpcode ==
    Acted("next") =>
        /\ Cpu = next_match([Pre EXCEPT !.register.pc = (@ + 1) % Word], FetchedOpcode)
        /\ FetchedOpcode = 0 =>
              /\ register = [Pre.register EXCEPT !.pc = (@ + 1) % Word]
              /\ memory = Pre.memory
              /\ stop = Pre.stop
              /\ interrupt = Pre.interrupt
        /\ FetchedOpcode = 118 => stop

(* C2: a step that is not a taken control transfer moves PC by the         *)
(* encoded length of the instruction at PC, modulo 2^16.                   *)
C2_PcAdvancesByLength ==
    (Acted("next") /\ ~TakenTransfer(FetchedOpcode, Pre.register.f)) =>
        register.pc = (Pre.register.pc + InstructionLength(FetchedOpcode)) % Word

(* C3: with an unspecified opcode at PC one step is a NOP: PC advances by  *)
(* 1 and nothing else changes.                                             *)
C3_UnspecifiedOpcodeIsNop ==
    (Acted("next") /\ FetchedOpcode \in UnspecifiedOpcodes) =>
        /\ register = [Pre.register EXCEPT !.pc = (@ + 1) % Word]
        /\ memory = Pre.memory
        /\ stop = Pre.stop
        /\ interrupt = Pre.interrupt
        /\ ~panicked

(* C4: while the core is halted a step changes no register, flag or memory *)
(* byte, and the core stays halted until an interrupt is accepted.         *)
C4_HaltedCoreDoesNotExecute ==
    (Len(hist) > 0 /\ Pre.stop) =>
        /\ Acted("next") =>
              /\ register = Pre.register
              /\ memory = Pre.memory
              /\ stop
        /\ ~(Acted("interrupt") /\ Last.accepted) => stop

(* C5: interrupt(opcode_byte) is accepted exactly when interrupts are      *)
(* enabled; accepted, it clears the enable and the halt and executes the   *)
(* opcode with no PC advance for its fetch, so RST n pushes the PC as it   *)
(* was and sets PC to 8 n; refused, it changes nothing.                    *)
C5_InterruptProtocol ==
    Acted("interrupt") =>
        /\ Last.accepted = Pre.interrupt
        /\ Last.accepted =>
              /\ Cpu = next_match([Pre EXCEPT !.interrupt = FALSE, !.stop = FALSE], Last.arg)
              /\ Last.arg = 0 =>
                    /\ register = Pre.register
                    /\ memory = Pre.memory
                    /\ ~interrupt
                    /\ ~stop
              /\ IsRst(Last.arg) =>
                    /\ ~panicked
                    /\ ~interrupt
                    /\ ~stop
                    /\ register.pc = 8 * ((Last.arg \div 8) % 8)
                    /\ register.sp = (Pre.register.sp + Word - 2) % Word
                    /\ WordAt(memory, register.sp) = Pre.register.pc
        /\ ~Last.accepted =>
              /\ register = Pre.register
              /\ memory = Pre.memory
              /\ stop = Pre.stop
              /\ interrupt = Pre.interrupt
              /\ ~panicked

(* C6: a step is total: from every PC, SP and memory content it completes  *)
(* without a panic.                                                        *)
C6_StepIsTotal == Acted("next") => ~panicked

(* C7: the word helpers wrap at the top of the address space: get_word(a)  *)
(* is data[a] | data[a + 1 mod 2^16] << 8, set_word(a, w) stores the low   *)
(* byte at a and the high byte at a + 1 mod 2^16, and get_word(a) after    *)
(* set_word(a, w) returns w.                                               *)
C7_WordHelpersWrap ==
    /\ Acted("get_word") =>
          /\ ~panicked
          /\ Last.ret = WordAt(Pre.memory, Last.arg)
    /\ Acted("set_word") =>
          /\ ~panicked
          /\ Load(memory, Last.arg) = Last.val % 256
          /\ Load(memory, (Last.arg + 1) % Word) = Last.val \div 256
    /\ (/\ Len(hist) >= 2
        /\ Last.kind = "get_word"
        /\ hist[Len(hist) - 1].kind = "set_word"
        /\ hist[Len(hist) - 1].arg = Last.arg) =>
          /\ ~panicked
          /\ Last.ret = hist[Len(hist) - 1].val

(* C8: in every reachable state bit 1 of F is 1 and bits 3 and 5 of F are  *)
(* 0, whatever instructions ran, POP PSW of arbitrary stack bytes included.*)
C8_FlagRegisterReservedBits == BitAnd(register.f, 42) = 2

\* POP PSW has popped a low byte whose bits 1, 3, 5 are not 1, 0, 0
C8_Witness ==
    /\ Acted("interrupt")
    /\ Last.accepted
    /\ Last.arg = 241
    /\ ~panicked
    /\ BitAnd(Load(Pre.memory, Pre.register.sp), 42) /= 2
    /\ register.a = Load(Pre.memory, Pre.register.sp + 1)

\* the register pair a PUSH / POP opcode names, in state s
PairOf(s, opcode) ==
    CASE opcode \in {197, 193} -> get_bc(s)
      [] opcode \in {213, 209} -> get_de(s)
      [] opcode \in {229, 225} -> get_hl(s)

(* C9: PUSH rp takes 2 from SP modulo 2^16 and stores rp little-endian at  *)
(* the new SP; a following POP rp' gives rp' the value rp had and puts SP  *)
(* back, from every SP, 0x0000 and 0x0001 included.                        *)
C9_PushThenPop ==
    /\ Acted("push") =>
          /\ ~panicked
          /\ register.sp = (Pre.register.sp + Word - 2) % Word
          /\ WordAt(memory, register.sp) = PairOf(Pre, Last.arg)
    /\ (Len(hist) >= 2 /\ Last.kind = "pop" /\ hist[Len(hist) - 1].kind = "push") =>
          /\ ~panicked
          /\ PairOf(Cpu, Last.arg)
                = PairOf(hist[Len(hist) - 1].pre, hist[Len(hist) - 1].arg)
          /\ register.sp = hist[Len(hist) - 1].pre.register.sp

\* the entry is a step from a state with a taken CALL / RET at PC
TakenCall(entry) ==
    LET opcode == Load(entry.pre.memory, entry.pre.register.pc)
    IN  entry.kind = "next" /\ IsCall(opcode) /\ Taken(opcode, entry.pre.register.f)

TakenRet(entry) ==
    LET opcode == Load(entry.pre.memory, entry.pre.register.pc)
    IN  entry.kind = "next" /\ IsRet(opcode) /\ Taken(opcode, entry.pre.register.f)

(* C10: a taken CALL at p pushes p + 3, takes 2 from SP and sets PC to its *)
(* immediate; a following taken RET puts PC at p + 3 and SP back. From     *)
(* PC = 0x0100, SP = 0x2400, Z = 0, CNZ 0x0200 gives PC = 0x0200,          *)
(* SP = 0x23FE and the word 0x0103 at 0x23FE.                              *)
C10_CallPushesReturnAddress ==
    /\ (Len(hist) > 0 /\ TakenCall(Last)) =>
          /\ register.pc = FetchedImm16
          /\ register.sp = (Pre.register.sp + Word - 2) % Word
          /\ WordAt(memory, register.sp) = (Pre.register.pc + 3) % Word
    /\ (Len(hist) >= 2 /\ TakenRet(Last) /\ TakenCall(hist[Len(hist) - 1])) =>
          /\ register.pc = (hist[Len(hist) - 1].pre.register.pc + 3) % Word
          /\ register.sp = hist[Len(hist) - 1].pre.register.sp

\* the conditional forms of JMP, CALL and RET, and the unconditional form of each
IsConditional(opcode) == opcode >= 192 /\ opcode % 8 \in {0, 2, 4}

UnconditionalForm(opcode) ==
    IF IsJmp(opcode) THEN 195 ELSE IF IsCall(opcode) THEN 205 ELSE 201

\* the operand bytes that follow the opcode of a branch
BranchOperands(opcode) == IF IsRet(opcode) THEN 0 ELSE 2

(* C11: a conditional JMP, CALL or RET whose condition holds leaves the    *)
(* PC, SP and memory that the unconditional form leaves from the same      *)
(* state; one whose condition does not hold only moves PC past its         *)
(* operand bytes, SP and memory unchanged; no form changes a flag.         *)
C11_ConditionalBranchRefinesUnconditional ==
    (Acted("arm") /\ Last.arg \in BranchOpcodes) =>
        /\ register.f = Pre.register.f
        /\ (IsConditional(Last.arg) /\ ConditionHolds(Last.arg, Pre.register.f)) =>
              LET u == next_match(Pre, UnconditionalForm(Last.arg))
              IN  /\ register.pc = u.register.pc
                  /\ register.sp = u.register.sp
                  /\ memory = u.memory
                  /\ panicked = u.panicked
        /\ (IsConditional(Last.arg) /\ ~ConditionHolds(Last.arg, Pre.register.f)) =>
              /\ ~panicked
              /\ register.pc = (Pre.register.pc + BranchOperands(Last.arg)) % Word
              /\ register.sp = Pre.register.sp
              /\ memory = Pre.memory

\* bit n of the flag byte f
Flag(f, n) == (f \div 2 ^ n) % 2 = 1

\* the byte x has an even number of 1 bits
EvenParity(x) == Cardinality({i \in 0 .. 7 : (x \div 2 ^ i) % 2 = 1}) % 2 = 0

\* Z, S and P of the flag byte f are those of the byte x
ReflectsResult(f, x) ==
    /\ Flag(f, Zero) = (x = 0)
    /\ Flag(f, Sign) = (x >= 128)
    /\ Flag(f, Parity) = EvenParity(x)

\* the carry-in of ADC / SBB: CY before the instruction
CarryIn(withCarry) == IF withCarry /\ Flag(Pre.register.f, Carry) THEN 1 ELSE 0

SameZSPAC ==
    \A n \in {Zero, Sign, Parity, AC} : Flag(register.f, n) = Flag(Pre.register.f, n)

(* C13: RAR rotates A right through the carry: the new A is the old CY in  *)
(* bit 7 over the old A shifted right by one, the new CY is bit 0 of the   *)
(* old A, and Z, S, P and AC are unchanged.                                *)
C13_RarRotatesThroughCarry ==
    (Acted("arm") /\ Last.arg = 31) =>
        /\ register.a = 128 * CarryIn(TRUE) + Pre.register.a \div 2
        /\ Flag(register.f, Carry) = (Pre.register.a % 2 = 1)
        /\ SameZSPAC

(* C14: DAA adds 0x06 to A iff the low nibble of A is above 9 or AC is     *)
(* set, and 0x60 iff the high nibble is above 9, or CY is set, or the high *)
(* nibble is at least 9 with the low nibble above 9; CY is then set iff    *)
(* 0x60 was added, AC is the carry out of the low nibble of the addition,  *)
(* Z, S, P are those of the new A; A = 0x9B with AC = CY = 0 gives         *)
(* A = 0x01 with CY and AC set and Z, P, S clear.                          *)
C14_DaaAdjusts ==
    (Acted("arm") /\ Last.arg = 39) =>
        LET a == Pre.register.a
            lowAdjust == (a % 16 > 9) \/ Flag(Pre.register.f, AC)
            highAdjust ==
                \/ a \div 16 > 9
                \/ Flag(Pre.register.f, Carry)
                \/ (a \div 16 >= 9 /\ a % 16 > 9)
            addend == (IF lowAdjust THEN 6 ELSE 0) + (IF highAdjust THEN 96 ELSE 0)
        IN  /\ register.a = (a + addend) % 256
            /\ Flag(register.f, Carry) = highAdjust
            /\ Flag(register.f, AC) = ((a % 16) + (addend % 16) > 15)
            /\ ReflectsResult(register.f, register.a)
            /\ (a = 155 /\ ~Flag(Pre.register.f, AC) /\ ~Flag(Pre.register.f, Carry)) =>
                  /\ register.a = 1
                  /\ Flag(register.f, Carry) /\ Flag(register.f, AC)
                  /\ ~Flag(register.f, Zero) /\ ~Flag(register.f, Parity)
                  /\ ~Flag(register.f, Sign)

\* DAA has adjusted 0x9B with no carry set to 0x01
C14_Witness ==
    /\ Acted("arm")
    /\ Last.arg = 39
    /\ Pre.register.a = 155
    /\ Pre.register.f = 2
    /\ register.a = 1
    /\ register.f = 19

\* the entry before the last one
Prev == hist[Len(hist) - 1]

\* the last two operations were the arms `first` and then `second`
ArmsInARow(first, second) ==
    /\ Len(hist) >= 2
    /\ Prev.kind = "arm" /\ Prev.arg = first
    /\ Last.kind = "arm" /\ Last.arg = second

(* C15: XTHL exchanges HL with the little-endian word at SP: L and H get   *)
(* the bytes that were at SP and SP + 1, those bytes get the old L and H,  *)
(* SP and the flags are unchanged, and a second XTHL restores HL and the   *)
(* two bytes; with SP = 0x10AD over 0xF0, 0x0D and HL = 0x0B3C it gives    *)
(* HL = 0x0DF0 and the bytes 0x3C, 0x0B.                                   *)
C15_XthlExchanges ==
    /\ (Acted("arm") /\ Last.arg = 227) =>
          /\ ~panicked
          /\ register.l = Load(Pre.memory, Pre.register.sp)
          /\ register.h = Load(Pre.memory, (Pre.register.sp + 1) % Word)
          /\ Load(memory, Pre.register.sp) = Pre.register.l
          /\ Load(memory, (Pre.register.sp + 1) % Word) = Pre.register.h
          /\ register.sp = Pre.register.sp
          /\ register.f = Pre.register.f
          /\ (Pre.register.sp = 4269 /\ get_hl(Pre) = 2876 /\ WordAt(Pre.memory, 4269) = 3568) =>
                /\ get_hl(Cpu) = 3568
                /\ Load(memory, 4269) = 60
                /\ Load(memory, 4270) = 11
    /\ ArmsInARow(227, 227) =>
          /\ ~panicked
          /\ get_hl(Cpu) = get_hl(Prev.pre)
          /\ memory = Prev.pre.memory

(* C16: with no I/O bus, IN port takes its one immediate byte and sets A   *)
(* to 0; OUT port takes its one immediate byte and changes no register     *)
(* but PC, no flag and no memory.                                          *)
C16_InReadsZeroOutDiscards ==
    /\ (Acted("arm") /\ Last.arg = 219) =>
          /\ ~panicked
          /\ register.pc = (Pre.register.pc + 1) % Word
          /\ register.a = 0
    /\ (Acted("arm") /\ Last.arg = 211) =>
          /\ ~panicked
          /\ register = [Pre.register EXCEPT !.pc = (@ + 1) % Word]
          /\ memory = Pre.memory

\* bit 1 of the flag byte f is 1 and bits 3 and 5 are 0
Normalized(f) == Flag(f, 1) /\ ~Flag(f, 3) /\ ~Flag(f, 5)

(* C17: set_af(get_af()) leaves A and the flags S, Z, AC, P, CY unchanged  *)
(* and F with bit 1 set and bits 3, 5 clear, and changes no register when  *)
(* F had that form already; PUSH PSW followed by POP PSW restores A, F     *)
(* and SP (F of that form, as every F that set_af has written).            *)
C17_AfRoundTrip ==
    /\ Acted("set_af") =>
          /\ register.a = Pre.register.a
          /\ \A n \in {Sign, Zero, AC, Parity, Carry} :
                Flag(register.f, n) = Flag(Pre.register.f, n)
          /\ Normalized(register.f)
          /\ Normalized(Pre.register.f) => register = Pre.register
    /\ (Acted("arm") /\ Last.arg = 245 /\ Normalized(Pre.register.f)) => ~panicked
    /\ (ArmsInARow(245, 241) /\ Normalized(Prev.pre.register.f)) =>
          /\ ~panicked
          /\ register.a = Prev.pre.register.a
          /\ register.f = Prev.pre.register.f
          /\ register.sp = Prev.pre.register.sp

C19_CompareSetsFlagsOfSub ==
    (Acted("arm") /\ Last.arg \in {184, 254}) =>
        LET a == Pre.register.a
            v == IF Last.arg = 184 THEN Pre.register.b
                 ELSE Load(Pre.memory, Pre.register.pc)
        IN  /\ register.a = a
            /\ register.f = alu_sub(Pre, v).register.f
            /\ Flag(register.f, Zero) = (a = v)
            /\ Flag(register.f, Carry) = (a < v)
            /\ Flag(register.f, AC) = ((a % 16) - (v % 16) >= 0)
            /\ Flag(register.f, Sign) = ((a - v) % 256 >= 128)
            /\ Flag(register.f, Parity) = EvenParity((a - v) % 256)

\* the source operand that bits 0..2 of an opcode name, in state s
SourceOperand(s, n) ==
    CASE n = 0 -> s.register.b
      [] n = 1 -> s.register.c
      [] n = 2 -> s.register.d
      [] n = 3 -> s.register.e
      [] n = 4 -> s.register.h
      [] n = 5 -> s.register.l
      [] n = 6 -> Load(s.memory, get_hl(s))
      [] n = 7 -> s.register.a

\* the operation that bits 3..5 of an opcode of the block name, on value
BlockOperation(s, n, value) ==
    CASE n = 0 -> alu_add(s, value)
      [] n = 1 -> alu_adc(s, value)
      [] n = 2 -> alu_sub(s, value)
      [] n = 3 -> alu_sbb(s, value)
      [] n = 4 -> alu_ana(s, value)
      [] n = 5 -> alu_xra(s, value)
      [] n = 6 -> alu_ora(s, value)
      [] n = 7 -> alu_cmp(s, value)

(* C20: in the block 0x80 .. 0xBF bits 0..2 of the opcode select the       *)
(* source B, C, D, E, H, L, memory[HL], A for each of ADD, ADC, SUB, SBB,  *)
(* ANA, XRA, ORA, CMP; CMP A (0xBF) compares A with itself: Z is set, CY   *)
(* is clear and A is unchanged.                                            *)
C20_BlockSelectsSource ==
    (Acted("arm") /\ Last.arg \in BlockOpcodes) =>
        /\ Cpu = BlockOperation(Pre, (Last.arg \div 8) % 8,
                                SourceOperand(Pre, Last.arg % 8))
        /\ Last.arg = 191 =>
              /\ Flag(register.f, Zero)
              /\ ~Flag(register.f, Carry)
              /\ register.a = Pre.register.a

(* C21: SUI (0xD6) subtracts its immediate byte v from A without borrow:   *)
(* A and the flags are those of SUB of v, A = (A - v) mod 256 whatever CY  *)
(* was before.                                                             *)
C21_SuiSubtractsWithoutBorrow ==
    (Acted("arm") /\ Last.arg = 214) =>
        LET v == Load(Pre.memory, Pre.register.pc)
        IN  /\ register.a = (Pre.register.a - v) % 256
            /\ register.a = alu_sub(Pre, v).register.a
            /\ register.f = alu_sub(Pre, v).register.f

(* C22: INR of v returns (v + 1) mod 256 with AC = ((v & 0x0F) = 0x0F),    *)
(* DCR of v returns (v - 1) mod 256 with AC = ((v & 0x0F) /= 0); both set  *)
(* Z, S, P from the result and leave CY as it was.                         *)
C22_InrDcrFlags ==
    /\ (Acted("arm") /\ Last.arg = 60) =>
          /\ register.a = (Pre.register.a + 1) % 256
          /\ Flag(register.f, AC) = (Pre.register.a % 16 = 15)
          /\ ReflectsResult(register.f, register.a)
          /\ Flag(register.f, Carry) = Flag(Pre.register.f, Carry)
    /\ (Acted("arm") /\ Last.arg = 61) =>
          /\ register.a = (Pre.register.a - 1) % 256
          /\ Flag(register.f, AC) = (Pre.register.a % 16 /= 0)
          /\ ReflectsResult(register.f, register.a)
          /\ Flag(register.f, Carry) = Flag(Pre.register.f, Carry)

\* DCR A has borrowed out of the low nibble of 0x10 with CY set
C22_Witness ==
    /\ Acted("arm")
    /\ Last.arg = 61
    /\ Pre.register.a = 16
    /\ Flag(Pre.register.f, Carry)
    /\ register.a = 15
    /\ ~Flag(register.f, AC)
    /\ Flag(register.f, Carry)

\* the 16-bit operand a DAD opcode names, in the registers r
DadOperand(r, opcode) ==
    CASE opcode = 9 -> 256 * r.b + r.c
      [] opcode = 25 -> 256 * r.d + r.e
      [] opcode = 41 -> 256 * r.h + r.l
      [] opcode = 57 -> r.sp

(* C23: DAD of the 16-bit operand v (BC, DE, HL or SP) leaves              *)
(* HL = (HL + v) mod 2^16 and CY = (HL + v > 0xFFFF), and Z, S, P, AC, A   *)
(* and memory unchanged; HL = 0x339F and DAD H give HL = 0x673E, CY = 0.   *)
C23_DadAddsToHl ==
    (Acted("arm") /\ Last.arg \in DadOpcodes) =>
        LET hl == 256 * Pre.register.h + Pre.register.l
            v == DadOperand(Pre.register, Last.arg)
        IN  /\ 256 * register.h + register.l = (hl + v) % Word
            /\ Flag(register.f, Carry) = (hl + v > 65535)
            /\ SameZSPAC
            /\ register.a = Pre.register.a
            /\ memory = Pre.memory
            /\ (Last.arg = 41 /\ hl = 13215) =>
                  /\ register.h = 103
                  /\ register.l = 62
                  /\ ~Flag(register.f, Carry)

\* DAD B has added 0x7FFF to 0x8000: HL = 0xFFFF and the carry is cleared
C23_Witness ==
    /\ Acted("arm")
    /\ Last.arg = 9
    /\ 256 * Pre.register.h + Pre.register.l = 32768
    /\ 256 * Pre.register.b + Pre.register.c = 32767
    /\ Flag(Pre.register.f, Carry)
    /\ register.h = 255
    /\ register.l = 255
    /\ ~Flag(register.f, Carry)

\* bit i of the byte x, as 0 or 1
BitOf(x, i) == (x \div 2 ^ i) % 2

(* C24: ANA, XRA and ORA of v leave A = A & v, A ^ v and A | v, set Z, S,  *)
(* P from the result and clear CY; ANA sets AC to bit 3 of (A | v) as they *)
(* were before, XRA and ORA clear AC.                                      *)
C24_LogicalOperations ==
    (Acted("arm") /\ Last.arg \in {160, 168, 176}) =>
        LET a == Pre.register.a
            v == Pre.register.b
        IN  /\ Last.arg = 160 =>
                  /\ \A i \in 0 .. 7 : BitOf(register.a, i) = BitOf(a, i) * BitOf(v, i)
                  /\ Flag(register.f, AC) = (BitOf(a, 3) = 1 \/ BitOf(v, 3) = 1)
            /\ Last.arg = 168 =>
                  /\ \A i \in 0 .. 7 : BitOf(register.a, i) = (BitOf(a, i) + BitOf(v, i)) % 2
                  /\ ~Flag(register.f, AC)
            /\ Last.arg = 176 =>
                  /\ \A i \in 0 .. 7 :
                        BitOf(register.a, i) = IF BitOf(a, i) + BitOf(v, i) > 0 THEN 1 ELSE 0
                  /\ ~Flag(register.f, AC)
            /\ ReflectsResult(register.f, register.a)
            /\ ~Flag(register.f, Carry)

\* ANA B of 0x08 and 0x10 has left A = 0 with AC set and CY cleared
C24_Witness ==
    /\ Acted("arm")
    /\ Last.arg = 160
    /\ Pre.register.a = 8
    /\ Pre.register.b = 16
    /\ Flag(Pre.register.f, Carry)
    /\ register.a = 0
    /\ Flag(register.f, AC)
    /\ Flag(register.f, Zero)
    /\ ~Flag(register.f, Carry)

(* C25: RLC, RRC, RAL, RAR, CMC, STC and DAD leave S, Z, AC and P as they  *)
(* were and CMA leaves all of F; CMC inverts CY, STC sets it; RLC puts the *)
(* old bit 7 of A in CY and in bit 0 of A shifted left, RRC the old bit 0  *)
(* in CY and in bit 7 of A shifted right, RAL the old bit 7 in CY and the  *)
(* old CY in bit 0 of A shifted left.                                      *)
C25_OnlyCarryAffected ==
    /\ (Acted("arm") /\ Last.arg \in CarryOnlyOpcodes) => SameZSPAC
    /\ (Acted("arm") /\ Last.arg \in CmaOpcode) => register.f = Pre.register.f
    /\ (Acted("arm") /\ Last.arg = 63) =>
          Flag(register.f, Carry) = (~Flag(Pre.register.f, Carry))
    /\ (Acted("arm") /\ Last.arg = 55) => Flag(register.f, Carry)
    /\ (Acted("arm") /\ Last.arg = 7) =>
          /\ Flag(register.f, Carry) = (Pre.register.a >= 128)
          /\ register.a = ((2 * Pre.register.a) % 256) + (Pre.register.a \div 128)
    /\ (Acted("arm") /\ Last.arg = 15) =>
          /\ Flag(register.f, Carry) = (Pre.register.a % 2 = 1)
          /\ register.a = (128 * (Pre.register.a % 2)) + (Pre.register.a \div 2)
    /\ (Acted("arm") /\ Last.arg = 23) =>
          /\ Flag(register.f, Carry) = (Pre.register.a >= 128)
          /\ register.a = ((2 * Pre.register.a) % 256) + CarryIn(TRUE)

\* RAL has moved bit 7 of 0x80 into CY and the clear CY into bit 0
C25_Witness ==
    /\ Acted("arm")
    /\ Last.arg = 23
    /\ Pre.register.a = 128
    /\ Pre.register.f = 18
    /\ register.a = 0
    /\ register.f = 19

(* C26: the rotates undo each other: RLC followed by RRC restores A, and   *)
(* RAL followed by RAR restores both A and CY.                             *)
C26_RotatesAreInverse ==
    /\ ArmsInARow(7, 15) => register.a = Prev.pre.register.a
    /\ ArmsInARow(23, 31) =>
          /\ register.a = Prev.pre.register.a
          /\ Flag(register.f, Carry) = Flag(Prev.pre.register.f, Carry)

\* the number a packed-BCD byte stands for, and the packed-BCD byte of n < 100
Dec(x) == 10 * (x \div 16) + (x % 16)

PackedBcd(n) == 16 * (n \div 10) + (n % 10)

IsPackedBcd(x) == x \div 16 <= 9 /\ x % 16 <= 9

\* the last two operations were ADD B or ADC B of packed-BCD bytes, then DAA
AddThenDaa ==
    /\ (ArmsInARow(128, 39) \/ ArmsInARow(136, 39))
    /\ IsPackedBcd(Prev.pre.register.a)
    /\ IsPackedBcd(Prev.pre.register.b)

(* C27: for packed-BCD bytes x and y, ADD y to A = x and then DAA leave A  *)
(* the packed-BCD byte of (dec(x) + dec(y)) mod 100 and CY set iff         *)
(* dec(x) + dec(y) >= 100; the same for ADC with the carry-in added to     *)
(* the sum.                                                                *)
C27_DaaCorrectsDecimalSum ==
    AddThenDaa =>
        LET c == IF Prev.arg = 136 /\ Flag(Prev.pre.register.f, Carry) THEN 1 ELSE 0
            sum == Dec(Prev.pre.register.a) + Dec(Prev.pre.register.b) + c
        IN  /\ register.a = PackedBcd(sum % 100)
            /\ Flag(register.f, Carry) = (sum >= 100)

\* ADC B of 0x99 to 0x99 with the carry, then DAA: 199 gives 0x99 and CY
C27_Witness ==
    /\ ArmsInARow(136, 39)
    /\ Prev.pre.register.a = 153
    /\ Prev.pre.register.b = 153
    /\ Flag(Prev.pre.register.f, Carry)
    /\ Pre.register.a = 51
    /\ register.a = 153
    /\ Flag(register.f, Carry)

\* the entry is a PUSH rp / a POP rp
IsPush(entry) == entry.kind = "arm" /\ entry.arg \in {197, 213, 229}

IsPop(entry) == entry.kind = "arm" /\ entry.arg \in {193, 209, 225}

\* the last four operations, oldest first
Fourth == hist[Len(hist) - 3]

Third == hist[Len(hist) - 2]

\* memory differs from the memory before the last operation at most in `addrs`
WritesOnly(addrs) ==
    \A addr \in (DOMAIN memory \cup DOMAIN Pre.memory) \ addrs :
        Load(memory, addr) = Load(Pre.memory, addr)

(* C28: the stack is last-in first-out: after a push of x and a push of y  *)
(* the next pop returns y and the one after returns x, and SP is back      *)
(* where it started; a push writes only the two bytes at the new SP and    *)
(* SP + 1 and a pop writes no memory; two nested CALLs return in the       *)
(* reverse order of their calls.                                           *)
C28_StackIsLifo ==
    /\ (Len(hist) > 0 /\ IsPush(Last)) =>
          /\ ~panicked
          /\ WritesOnly({(Pre.register.sp + Word - 2) % Word,
                         (Pre.register.sp + Word - 1) % Word})
    /\ (Len(hist) > 0 /\ IsPop(Last)) =>
          /\ ~panicked
          /\ memory = Pre.memory
    /\ (Len(hist) >= 4 /\ IsPush(Fourth) /\ IsPush(Third) /\ IsPop(Prev) /\ IsPop(Last)) =>
          /\ PairOf(Pre, Prev.arg) = PairOf(Third.pre, Third.arg)
          /\ PairOf(Cpu, Last.arg) = PairOf(Fourth.pre, Fourth.arg)
          /\ register.sp = Fourth.pre.register.sp
    /\ (Len(hist) >= 4 /\ ArmsInARow(201, 201)
            /\ Fourth.kind = "arm" /\ Fourth.arg = 205
            /\ Third.kind = "arm" /\ Third.arg = 205) =>
          /\ ~panicked
          /\ Pre.register.pc = (Third.pre.register.pc + 2) % Word
          /\ register.pc = (Fourth.pre.register.pc + 2) % Word
          /\ register.sp = Fourth.pre.register.sp

====
